---- MODULE Spec2Model ----
(***************************************************************************)
(* Process-level locking of dvc: the exclusive gate of dvc/lock.py (Lock,  *)
(* backed by zc.lockfile) and the path-granular reader/writer bookkeeping  *)
(* of dvc/rwlock.py (the "rwlock" document under the repository's tmp      *)
(* directory).  Every process runs rwlock(tmp_dir, read, write) as         *)
(*   acquire cycle  -> protected body -> release cycle                     *)
(* where a cycle is  Lock.lock, _rwlock load, mutate, _rwlock save,        *)
(* Lock.unlock.  rwlock.py itself takes no gate: the gate around each      *)
(* cycle is the caller's, taken here as the specification describes it.    *)
(* The callers (Procs) are processes of their own, each with its own       *)
(* identifier, except in SpecNested, where they are guards that one        *)
(* process enters inside each other's bodies.  SpecLock has the callers    *)
(* call Lock.lock and Lock.unlock on their gate objects directly.          *)
(***************************************************************************)
EXTENDS Integers, Sequences, FiniteSets, TLC

(* ------------------------------ bounds -------------------------------- *)
NProcs == 2
MaxPaths == 2
MaxCalls == 3
MaxReaders == 1
MaxCrashes == 2
MaxNestedPaths == 3
MaxLockCalls == 5

Procs == 1..NProcs
Paths == {"X", "Y"}

SeqsUpTo(S, n) == UNION {[1..k -> S] : k \in 0..n}
\* the (read, write) arguments of one call: at most MaxPaths paths in all
Args == {a \in SeqsUpTo(Paths, MaxPaths) \X SeqsUpTo(Paths, MaxPaths) :
            Len(a[1]) + Len(a[2]) <= MaxPaths}

VARIABLES
    file,      \* the rwlock document on disk: [kind, data]
    gate,      \* the zc.lockfile lock of the gate's lock file: the pid of
               \* the process that holds it, or 0
    pc,        \* each caller's position in rwlock
    read,      \* rwlock's read argument, per caller
    write,     \* rwlock's write argument, per caller
    mem,       \* the dict _rwlock yielded ("lock"), per caller
    loaded,    \* what the current cycle's _rwlock read from disk
    err,       \* the exception that ended the last call, kind "none" if none
    body,      \* how the protected body ended: "none", "ok", "failed"
    acquired,  \* the acquire cycle of the current call saved its document
    released,  \* release cycles that saved their document, this call
    calls,     \* rwlock calls started so far (bounded by MaxCalls)
    named,     \* history: the paths the calls so far have named
    overlap,   \* history: some call named a path twice or one named before
    leaked,    \* history: some call ended before its release cycle saved
    refused,   \* history: the write path another holder refused the
               \* process's last acquire on, "" if none
    pids,      \* the process identifier of the process each caller runs in
    _lock      \* Lock._lock of each caller's gate object: TRUE for a
               \* zc.lockfile.LockFile, FALSE for None

vars == <<file, gate, pc, read, write, mem, loaded, err, body, acquired,
          released, calls, named, overlap, leaked, refused, pids, _lock>>
hist == <<named, overlap, leaked, refused>>

\* os.getpid() in the process of caller p: a positive integer
getpid(p) == pids[p]

(* ----------------------------- dict helpers --------------------------- *)
EmptyDict == <<>>
dict_set(d, k, v) == [x \in DOMAIN d \cup {k} |-> IF x = k THEN v ELSE d[x]]
dict_del(d, k) == [x \in DOMAIN d \ {k} |-> d[x]]
\* dict.get(key): None is 0 for the writer, which "if writer:" treats alike
get_writer(e) == IF "writer" \in DOMAIN e THEN e["writer"] ELSE 0
get_readers(e) == IF "readers" \in DOMAIN e THEN e["readers"] ELSE <<>>

\* mutant: every occurrence is dropped
list_remove_all(s, x) == SelectSeq(s, LAMBDA v : v # x)

RECURSIVE list_remove(_, _)
\* list.remove(x): drops the first occurrence
list_remove(s, x) ==
    IF s = <<>> THEN <<>>
    ELSE IF Head(s) = x THEN Tail(s)
    ELSE <<Head(s)>> \o list_remove(Tail(s), x)

InList(s, x) == \E i \in 1..Len(s) : s[i] = x
Range(s) == {s[i] : i \in 1..Len(s)}

(* ------------------------------ errors -------------------------------- *)
NoError == [kind |-> "none", path |-> "", writer |-> 0, readers |-> <<>>]
\* LockError("'{}' is busy, it is being written to by '{}'.")
WriterBusy(path, writer) ==
    [kind |-> "writer", path |-> path, writer |-> writer, readers |-> <<>>]
\* LockError("'{}' is busy, it is being read by '{}'")
ReadersBusy(path, readers) ==
    [kind |-> "readers", path |-> path, writer |-> 0, readers |-> readers]
\* LockError(FAILED_TO_LOCK_MESSAGE)
GateBusy == [kind |-> "gate", path |-> "", writer |-> 0, readers |-> <<>>]
\* a missing dict key
KeyError(path) ==
    [kind |-> "KeyError", path |-> path, writer |-> 0, readers |-> <<>>]
\* voluptuous.Invalid, raised by COMPLIED_SCHEMA
Invalid == [kind |-> "Invalid", path |-> "", writer |-> 0, readers |-> <<>>]
\* an attribute looked up on None
AttributeError ==
    [kind |-> "AttributeError", path |-> "", writer |-> 0, readers |-> <<>>]

(* --------------------------- dvc/rwlock.py ---------------------------- *)
\* the document file: missing, not JSON, or the JSON text of a dict
MissingFile == [kind |-> "missing", data |-> EmptyDict]
CorruptFile == [kind |-> "corrupt", data |-> EmptyDict]
json_dump(d) == [kind |-> "json", data |-> d]
\* content that json.load accepts and SCHEMA does not: a top level that is
\* no mapping, an entry whose writer is no integer, an entry whose readers
\* is no list of integers, an entry with a key other than the two
NonconformingKinds ==
    {"not a mapping", "writer not int", "readers not list", "unknown key"}
NonconformingFiles == {[kind |-> k, data |-> EmptyDict] : k \in NonconformingKinds}

\* line 25: Schema(SCHEMA) raises Invalid on data that does not conform
\* (a wrong type, or a key the schema does not list), and nothing in
\* _rwlock catches it
COMPLIED_SCHEMA(f) ==
    IF f.kind \in NonconformingKinds THEN Invalid ELSE NoError

\* _rwlock up to its yield: FileNotFoundError and JSONDecodeError give {};
\* a dict that json.dump wrote is read back as it was (string keys, integer
\* writer, list of integers) and COMPLIED_SCHEMA returns it unchanged
rwlock_load(f) == IF f.kind = "json" THEN f.data ELSE EmptyDict

\* mutant: the writer check never raises
_check_no_writer_never(lock, path) == NoError

_check_no_writer(lock, path) ==
    LET writer == get_writer(lock[path])
    IN  IF writer # 0 THEN WriterBusy(path, writer) ELSE NoError

\* mutant: the readers check never raises
_check_no_readers_never(lock, path) == NoError

_check_no_readers(lock, path) ==
    LET readers == get_readers(lock[path])
    IN  IF readers # <<>> THEN ReadersBusy(path, readers) ELSE NoError

RECURSIVE _acquire_read_reset(_, _, _)
\* mutant: a reader replaces the readers list instead of joining it
_acquire_read_reset(lock, paths, me) ==
    IF paths = <<>> THEN [lock |-> lock, err |-> NoError]
    ELSE LET path == Head(paths)
             chk == IF path \in DOMAIN lock
                       THEN _check_no_writer(lock, path) ELSE NoError
         IN  IF chk.kind # "none" THEN [lock |-> lock, err |-> chk]
             ELSE _acquire_read_reset(
                      dict_set(lock, path, [readers |-> <<me>>]),
                      Tail(paths), me)

RECURSIVE _acquire_read(_, _, _)
_acquire_read(lock, paths, me) ==
    IF paths = <<>> THEN [lock |-> lock, err |-> NoError]
    ELSE LET path == Head(paths)
             chk == IF path \in DOMAIN lock
                       THEN _check_no_writer(lock, path) ELSE NoError
             l1 == IF path \in DOMAIN lock THEN lock
                   ELSE dict_set(lock, path, [readers |-> <<>>])
         IN  IF chk.kind # "none" THEN [lock |-> lock, err |-> chk]
             ELSE IF "readers" \notin DOMAIN l1[path]
                  THEN [lock |-> l1, err |-> KeyError(path)]
             ELSE _acquire_read(
                      dict_set(l1, path,
                          dict_set(l1[path], "readers",
                                   Append(l1[path]["readers"], me))),
                      Tail(paths), me)

RECURSIVE _acquire_write_update(_, _, _)
\* mutant: the writer is set on the entry as found, readers unchecked
_acquire_write_update(lock, paths, me) ==
    IF paths = <<>> THEN [lock |-> lock, err |-> NoError]
    ELSE LET path == Head(paths)
             chkw == IF path \in DOMAIN lock
                        THEN _check_no_writer(lock, path) ELSE NoError
             e0 == IF path \in DOMAIN lock THEN lock[path] ELSE <<>>
         IN  IF chkw.kind # "none" THEN [lock |-> lock, err |-> chkw]
             ELSE _acquire_write_update(
                      dict_set(lock, path, dict_set(e0, "writer", me)),
                      Tail(paths), me)

RECURSIVE _acquire_write_readers_first(_, _, _)
\* mutant: the two checks in the other order
_acquire_write_readers_first(lock, paths, me) ==
    IF paths = <<>> THEN [lock |-> lock, err |-> NoError]
    ELSE LET path == Head(paths)
             chkw == IF path \in DOMAIN lock
                        THEN _check_no_writer(lock, path) ELSE NoError
             chkr == IF path \in DOMAIN lock
                        THEN _check_no_readers(lock, path) ELSE NoError
         IN  IF chkr.kind # "none" THEN [lock |-> lock, err |-> chkr]
             ELSE IF chkw.kind # "none" THEN [lock |-> lock, err |-> chkw]
             ELSE _acquire_write_readers_first(
                      dict_set(lock, path, [writer |-> me]), Tail(paths), me)

RECURSIVE _acquire_write_fresh(_, _, _)
\* mutant: the new entry replaces the document, not the path's entry
_acquire_write_fresh(lock, paths, me) ==
    IF paths = <<>> THEN [lock |-> lock, err |-> NoError]
    ELSE LET path == Head(paths)
             chkw == IF path \in DOMAIN lock
                        THEN _check_no_writer(lock, path) ELSE NoError
             chkr == IF path \in DOMAIN lock
                        THEN _check_no_readers(lock, path) ELSE NoError
         IN  IF chkw.kind # "none" THEN [lock |-> lock, err |-> chkw]
             ELSE IF chkr.kind # "none" THEN [lock |-> lock, err |-> chkr]
             ELSE _acquire_write_fresh(
                      dict_set(EmptyDict, path, [writer |-> me]),
                      Tail(paths), me)

RECURSIVE _acquire_write(_, _, _)
_acquire_write(lock, paths, me) ==
    IF paths = <<>> THEN [lock |-> lock, err |-> NoError]
    ELSE LET path == Head(paths)
             chkw == IF path \in DOMAIN lock
                        THEN _check_no_writer(lock, path) ELSE NoError
             chkr == IF path \in DOMAIN lock
                        THEN _check_no_readers(lock, path) ELSE NoError
         IN  IF chkw.kind # "none" THEN [lock |-> lock, err |-> chkw]
             ELSE IF chkr.kind # "none" THEN [lock |-> lock, err |-> chkr]
             ELSE _acquire_write(dict_set(lock, path, [writer |-> me]),
                                 Tail(paths), me)

\* mutant: an emptied entry is left in the document
prune_never(lock, path) == lock

\* "if not lock[path]: del lock[path]"
prune(lock, path) ==
    IF DOMAIN lock[path] = {} THEN dict_del(lock, path) ELSE lock

RECURSIVE _release_read(_, _, _)
_release_read(lock, paths, me) ==
    IF paths = <<>> THEN [lock |-> lock, err |-> NoError]
    ELSE LET path == Head(paths)
         IN  IF path \notin DOMAIN lock
                THEN _release_read(lock, Tail(paths), me)
             ELSE IF "readers" \notin DOMAIN lock[path]
                THEN [lock |-> lock, err |-> KeyError(path)]
             ELSE LET readers == list_remove(lock[path]["readers"], me)
                      e1 == IF readers = <<>>
                               THEN dict_del(lock[path], "readers")
                               ELSE dict_set(lock[path], "readers", readers)
                  IN  _release_read(prune(dict_set(lock, path, e1), path),
                                    Tail(paths), me)

\* mutant: the write paths are not released
_release_write_skip(lock, paths, me) == [lock |-> lock, err |-> NoError]

RECURSIVE _release_write_any(_, _, _)
\* mutant: the writer is cleared whoever it is
_release_write_any(lock, paths, me) ==
    IF paths = <<>> THEN [lock |-> lock, err |-> NoError]
    ELSE LET path == Head(paths)
         IN  IF path \notin DOMAIN lock
                THEN _release_write_any(lock, Tail(paths), me)
             ELSE IF "writer" \notin DOMAIN lock[path]
                THEN [lock |-> lock, err |-> KeyError(path)]
             ELSE _release_write_any(
                      prune(dict_set(lock, path,
                                     dict_del(lock[path], "writer")), path),
                      Tail(paths), me)

RECURSIVE _release_write(_, _, _)
_release_write(lock, paths, me) ==
    IF paths = <<>> THEN [lock |-> lock, err |-> NoError]
    ELSE LET path == Head(paths)
         IN  IF path \notin DOMAIN lock
                THEN _release_write(lock, Tail(paths), me)
             ELSE IF "writer" \notin DOMAIN lock[path]
                THEN [lock |-> lock, err |-> KeyError(path)]
             ELSE LET e1 == IF lock[path]["writer"] = me
                               THEN dict_del(lock[path], "writer")
                               ELSE lock[path]
                  IN  _release_write(prune(dict_set(lock, path, e1), path),
                                     Tail(paths), me)

\* mutant: the write paths are handled before the read paths
rwlock_acquire_writes_first(lock, rd, wr, me) ==
    LET w == _acquire_write(lock, wr, me)
    IN  IF w.err.kind # "none" THEN w ELSE _acquire_read(w.lock, rd, me)

\* rwlock lines 94-96: reads first, then writes; the first error ends it
rwlock_acquire(lock, rd, wr, me) ==
    LET r == _acquire_read(lock, rd, me)
    IN  IF r.err.kind # "none" THEN r ELSE _acquire_write(r.lock, wr, me)

\* rwlock lines 101-103: writes first, then reads
rwlock_release(lock, rd, wr, me) ==
    LET w == _release_write(lock, wr, me)
    IN  IF w.err.kind # "none" THEN w ELSE _release_read(w.lock, rd, me)

(* ---------------------------- dvc/lock.py ----------------------------- *)
\* mutant: the lock file is taken whether or not it is locked
_do_lock_always(g, p) == [ok |-> TRUE, gate |-> p]

\* Lock._do_lock: zc.lockfile.LockFile succeeds only on an unlocked file
_do_lock(g, p) ==
    IF g = 0 THEN [ok |-> TRUE, gate |-> p] ELSE [ok |-> FALSE, gate |-> g]

\* Lock.__init__ line 32: a new gate object has no lock file
__init__ == FALSE

\* mutant: the lock file is not closed
unlock_never(g, l, p) == [gate |-> g, lock |-> FALSE, err |-> NoError]

\* mutant: unlock of a gate object without a lock file does nothing
unlock_quiet(g, l, p) ==
    [gate |-> IF l /\ g = p THEN 0 ELSE g, lock |-> FALSE, err |-> NoError]

\* Lock.unlock lines 54-55, for a gate object whose _lock is l: close() of
\* the object's own lock file drops the lock it holds, then _lock is None;
\* with _lock None line 54 raises AttributeError and nothing is closed
unlock(g, l, p) ==
    IF l THEN [gate |-> IF g = p THEN 0 ELSE g, lock |-> FALSE,
               err |-> NoError]
         ELSE [gate |-> g, lock |-> FALSE, err |-> AttributeError]

(* ------------------------------ actions ------------------------------- *)
Idle ==
    /\ gate = 0
    /\ pc = [p \in Procs |-> "idle"]
    /\ read = [p \in Procs |-> <<>>]
    /\ write = [p \in Procs |-> <<>>]
    /\ mem = [p \in Procs |-> EmptyDict]
    /\ loaded = [p \in Procs |-> MissingFile]
    /\ err = [p \in Procs |-> NoError]
    /\ body = [p \in Procs |-> "none"]
    /\ acquired = [p \in Procs |-> FALSE]
    /\ released = [p \in Procs |-> 0]
    /\ calls = 0
    /\ named = {}
    /\ refused = [p \in Procs |-> ""]
    /\ _lock = [p \in Procs |-> __init__]

\* every caller is a process of its own, numbered by its identifier
OwnProcess == pids = [p \in Procs |-> p]

\* no document yet, or one that json.load rejects: both load as {}
Init ==
    /\ Idle
    /\ OwnProcess
    /\ file \in {MissingFile, CorruptFile}
    /\ overlap = FALSE
    /\ leaked = FALSE

\* each cycle of rwlock runs inside "with lock:", so it starts at the gate
StartCycle(p, phase) == pc' = [pc EXCEPT ![p] = phase \o "_lock"]

NoDup(s) == \A i, j \in 1..Len(s) : s[i] = s[j] => i = j

\* a caller enters "with rwlock(tmp_dir, read, write)", its arguments
\* taken from A
CallWith(p, A) ==
    /\ pc[p] = "idle"
    /\ calls < MaxCalls
    /\ \E a \in A :
          /\ read' = [read EXCEPT ![p] = a[1]]
          /\ write' = [write EXCEPT ![p] = a[2]]
          /\ overlap' = (\/ overlap
                         \/ ~NoDup(a[1] \o a[2])
                         \/ Range(a[1] \o a[2]) \cap named # {})
          /\ named' = IF overlap' THEN {} ELSE named \cup Range(a[1] \o a[2])
    /\ StartCycle(p, "acq")
    /\ err' = [err EXCEPT ![p] = NoError]
    /\ body' = [body EXCEPT ![p] = "none"]
    /\ acquired' = [acquired EXCEPT ![p] = FALSE]
    /\ released' = [released EXCEPT ![p] = 0]
    /\ calls' = calls + 1
    /\ UNCHANGED <<file, gate, mem, loaded, leaked, refused, pids, _lock>>

Call(p) == CallWith(p, Args)

Phase(p) == IF pc[p] \in {"acq_lock", "acq_sleep", "acq_load", "acq_mut",
                          "acq_save", "acq_unlock", "acq_raise"}
            THEN "acq" ELSE "rel"
At(p, step) == pc[p] \in {"acq_" \o step, "rel_" \o step}
Goto(p, step) == pc' = [pc EXCEPT ![p] = Phase(p) \o "_" \o step]

\* the acquire was refused on a write path by another process's entry
RefusedOn(p) ==
    IF /\ pc[p] = "acq_raise"
       /\ err[p].path \in Range(write[p]) \ Range(read[p])
       /\ \/ err[p].kind = "writer" /\ err[p].writer # getpid(p)
          \/ err[p].kind = "readers" /\ Range(err[p].readers) # {getpid(p)}
    THEN err[p].path
    ELSE IF pc[p] = "acq_sleep" \/ refused[p] \notin Range(write[p])
         THEN refused[p] ELSE ""

\* rwlock returns or raises: its arguments go out of scope
EndCall(p) ==
    /\ pc' = [pc EXCEPT ![p] = "idle"]
    /\ read' = [read EXCEPT ![p] = <<>>]
    /\ write' = [write EXCEPT ![p] = <<>>]
    /\ leaked' = (leaked \/ (Phase(p) = "rel" /\ released[p] = 0))
    /\ refused' = [refused EXCEPT ![p] = RefusedOn(p)]

\* mutant: after the sleep a contested attempt starts Lock.lock over
lock_contested_again(step) == IF step = "lock" THEN "sleep" ELSE "lock"

\* Lock.lock lines 45-51: the LockError of the first attempt is caught and
\* followed by the sleep, that of the attempt after the sleep is not caught
lock_contested(step) == IF step = "lock" THEN "sleep" ELSE "raise"

\* Lock.lock, first attempt; contested: time.sleep(DEFAULT_TIMEOUT)
LockFirst(p) ==
    /\ At(p, "lock")
    /\ LET r == _do_lock(gate, getpid(p))
       IN  /\ gate' = r.gate
           /\ _lock' = [_lock EXCEPT ![p] = r.ok \/ _lock[p]]
           /\ IF r.ok THEN Goto(p, "load")
                      ELSE Goto(p, lock_contested("lock"))
    /\ UNCHANGED <<file, read, write, mem, loaded, err, body, acquired,
                   released, calls, hist, pids>>

\* Lock.lock, the attempt after the sleep; contested: LockError
LockSecond(p) ==
    /\ At(p, "sleep")
    /\ LET r == _do_lock(gate, getpid(p))
       IN  /\ gate' = r.gate
           /\ _lock' = [_lock EXCEPT ![p] = r.ok \/ _lock[p]]
           /\ IF r.ok \/ lock_contested("sleep") # "raise"
                 THEN /\ Goto(p, IF r.ok THEN "load"
                                         ELSE lock_contested("sleep"))
                      /\ UNCHANGED <<err, read, write, leaked, refused>>
                 ELSE EndCall(p) /\ err' = [err EXCEPT ![p] = GateBusy]
    /\ UNCHANGED <<file, mem, loaded, body, acquired, released, calls, named,
                   overlap, pids>>

\* _rwlock lines 19-26: read the document, validate it and yield it; a
\* document that fails the validation ends the cycle before the yield
Load(p) ==
    /\ At(p, "load")
    /\ loaded' = [loaded EXCEPT ![p] = file]
    /\ LET e == COMPLIED_SCHEMA(file)
       IN  IF e.kind = "none"
              THEN /\ mem' = [mem EXCEPT ![p] = rwlock_load(file)]
                   /\ Goto(p, "mut")
                   /\ UNCHANGED err
              ELSE /\ err' = [err EXCEPT ![p] = e]
                   /\ Goto(p, "raise")
                   /\ UNCHANGED mem
    /\ UNCHANGED <<file, gate, read, write, body, acquired, released, calls,
                   hist, pids, _lock>>

\* mutant: the LockError of a check is swallowed, the cycle goes on
acquire_exit_ignore(e) == "acq_save"

\* mutant: a refused acquire loads the document again for another try
acquire_exit_retry(e) == IF e.kind = "none" THEN "acq_save" ELSE "acq_load"

\* rwlock lines 94-96: nothing catches the LockError of a check, it leaves
\* the with-block; without one the block ends normally, at the dump
acquire_exit(e) == IF e.kind = "none" THEN "acq_save" ELSE "acq_raise"

\* rwlock lines 95-96 on the yielded dict
Acquire(p) ==
    /\ pc[p] = "acq_mut"
    /\ LET r == rwlock_acquire(mem[p], read[p], write[p], getpid(p))
       IN  /\ mem' = [mem EXCEPT ![p] = r.lock]
           /\ err' = [err EXCEPT ![p] = r.err]
           /\ pc' = [pc EXCEPT ![p] = acquire_exit(r.err)]
    /\ UNCHANGED <<file, gate, read, write, loaded, body, acquired, released,
                   calls, hist, pids, _lock>>

\* rwlock lines 102-103 on the yielded dict
Release(p) ==
    /\ pc[p] = "rel_mut"
    /\ LET r == rwlock_release(mem[p], read[p], write[p], getpid(p))
       IN  /\ mem' = [mem EXCEPT ![p] = r.lock]
           /\ err' = [err EXCEPT ![p] = r.err]
           /\ pc' = [pc EXCEPT ![p] = IF r.err.kind = "none"
                                        THEN "rel_save" ELSE "rel_raise"]
    /\ UNCHANGED <<file, gate, read, write, loaded, body, acquired, released,
                   calls, hist, pids, _lock>>

\* mutant: the dump is in a finally clause
rwlock_abort_dump(f, lock) == json_dump(lock)

\* _rwlock when its with-body raised: the generator ends at the yield,
\* lines 27-28 are not run and the file keeps its content
rwlock_abort(f, lock) == f

\* _rwlock lines 27-28: the with-body ended normally, dump the dict
Save(p) ==
    /\ At(p, "save")
    /\ file' = json_dump(mem[p])
    /\ acquired' = [acquired EXCEPT ![p] = acquired[p] \/ pc[p] = "acq_save"]
    /\ released' = [released EXCEPT
                       ![p] = released[p] + IF pc[p] = "rel_save" THEN 1 ELSE 0]
    /\ Goto(p, "unlock")
    /\ UNCHANGED <<gate, read, write, mem, loaded, err, body, calls, hist,
                   pids, _lock>>

\* Lock.__exit__ after a cycle that ended normally
Unlock(p) ==
    /\ At(p, "unlock")
    /\ LET r == unlock(gate, _lock[p], getpid(p))
       IN  gate' = r.gate /\ _lock' = [_lock EXCEPT ![p] = r.lock]
    /\ IF pc[p] = "acq_unlock"
          THEN /\ pc' = [pc EXCEPT ![p] = "body"]
               /\ UNCHANGED <<read, write, leaked, refused>>
          ELSE EndCall(p)
    /\ mem' = [mem EXCEPT ![p] = EmptyDict]
    /\ loaded' = [loaded EXCEPT ![p] = MissingFile]
    /\ UNCHANGED <<file, err, body, acquired, released, calls, named, overlap,
                   pids>>

\* the with-body raised: the exception leaves _rwlock (no dump) and the gate
Raise(p) ==
    /\ At(p, "raise")
    /\ file' = rwlock_abort(file, mem[p])
    /\ LET r == unlock(gate, _lock[p], getpid(p))
       IN  gate' = r.gate /\ _lock' = [_lock EXCEPT ![p] = r.lock]
    /\ EndCall(p)
    /\ mem' = [mem EXCEPT ![p] = EmptyDict]
    /\ loaded' = [loaded EXCEPT ![p] = MissingFile]
    /\ UNCHANGED <<err, body, acquired, released, calls, named, overlap, pids>>

\* mutant: no finally, a failed body skips the release cycle
body_exit_no_finally(outcome) == IF outcome = "failed" THEN "idle" ELSE "rel"

\* rwlock lines 98-103, try/finally: whatever the outcome of the body, the
\* release cycle is next
body_exit(outcome) == "rel"

\* mutant: the context manager swallows the failure of the body
rwlock_outcome_swallow(outcome, e) == e.kind

\* what leaves rwlock at the end of a call (lines 98-103): an exception
\* raised inside the finally clause replaces the one in flight; otherwise
\* the failure of the body, thrown in at the yield, goes on to the caller
rwlock_outcome(outcome, e) ==
    IF e.kind # "none" THEN e.kind
    ELSE IF outcome = "failed" THEN "body" ELSE "none"

\* the protected body ends, normally or by raising
Body(p) ==
    /\ pc[p] = "body"
    /\ \E outcome \in {"ok", "failed"} :
          /\ body' = [body EXCEPT ![p] = outcome]
          /\ IF body_exit(outcome) = "rel"
                THEN StartCycle(p, "rel")
                ELSE pc' = [pc EXCEPT ![p] = "idle"]
    /\ UNCHANGED <<file, gate, read, write, mem, loaded, err, acquired,
                   released, calls, hist, pids, _lock>>

Step(p) ==
    \/ Call(p)
    \/ LockFirst(p)
    \/ LockSecond(p)
    \/ Load(p)
    \/ Acquire(p)
    \/ Save(p)
    \/ Unlock(p)
    \/ Raise(p)
    \/ Body(p)
    \/ Release(p)

Next == \E p \in Procs : Step(p)

\* processes sharing a repository whose document starts out empty
Spec == Init /\ [][Next]_vars

(* ------------- one call on a document found already locked ------------ *)
\* entries that hold a writer, readers, or (as no run from an empty
\* document leaves them, but as SCHEMA accepts them) both
HeldEntries ==
    LET Readers == SeqsUpTo(Procs, MaxReaders) \ {<<>>}
    IN  {[writer |-> w] : w \in Procs}
        \cup {[readers |-> r] : r \in Readers}
        \cup {[writer |-> w, readers |-> r] : w \in Procs, r \in Readers}
HeldDocs == UNION {[S -> HeldEntries] : S \in SUBSET Paths}

InitHeld ==
    /\ Idle
    /\ OwnProcess
    /\ file \in {json_dump(d) : d \in HeldDocs}
    /\ overlap = TRUE
    /\ leaked = TRUE

\* a single process makes a single call
CallAlone(p) == calls = 0 /\ Call(p)

StepAlone(p) ==
    \/ CallAlone(p)
    \/ LockFirst(p)
    \/ Load(p)
    \/ Acquire(p)
    \/ Save(p)
    \/ Unlock(p)
    \/ Raise(p)
    \/ Body(p)
    \/ Release(p)

NextAlone == \E p \in Procs : StepAlone(p)

SpecHeld == InitHeld /\ [][NextAlone]_vars

(* ------------- one cycle on any document a file can hold -------------- *)
\* every entry SCHEMA accepts: an optional integer writer (0 is an integer
\* that "if writer:" takes for none) and an optional list of readers
SchemaEntries ==
    LET Writers == 0..NProcs
        Readers == SeqsUpTo(Procs, MaxReaders)
    IN  {<<>>}
        \cup {[writer |-> w] : w \in Writers}
        \cup {[readers |-> r] : r \in Readers}
        \cup {[writer |-> w, readers |-> r] : w \in Writers, r \in Readers}
SchemaDocs == UNION {[S -> SchemaEntries] : S \in SUBSET Paths}

InitAny ==
    /\ Idle
    /\ OwnProcess
    /\ file \in {MissingFile, CorruptFile} \cup NonconformingFiles
                \cup {json_dump(d) : d \in SchemaDocs}
    /\ overlap = TRUE
    /\ leaked = TRUE

\* rwlock lines 100-103 on their own: the release cycle for a read and a
\* write set, whatever the document holds for them
CallRelease(p) ==
    /\ pc[p] = "idle"
    /\ calls = 0
    /\ \E a \in Args :
          /\ read' = [read EXCEPT ![p] = a[1]]
          /\ write' = [write EXCEPT ![p] = a[2]]
    /\ StartCycle(p, "rel")
    /\ calls' = calls + 1
    /\ UNCHANGED <<file, gate, mem, loaded, err, body, acquired, released,
                   hist, pids, _lock>>

StepAny(p) ==
    \/ CallAlone(p)
    \/ CallRelease(p)
    \/ LockFirst(p)
    \/ Load(p)
    \/ Acquire(p)
    \/ Save(p)
    \/ Unlock(p)
    \/ Raise(p)
    \/ Body(p)
    \/ Release(p)

NextAny == \E p \in Procs : StepAny(p)

SpecAny == InitAny /\ [][NextAny]_vars

(* ------------------- the release cycle, a second time ------------------ *)
\* Lock.__exit__ after the release cycle; the caller still has the read
\* and write sets it passed
UnlockKeep(p) ==
    /\ pc[p] = "rel_unlock"
    /\ LET r == unlock(gate, _lock[p], getpid(p))
       IN  gate' = r.gate /\ _lock' = [_lock EXCEPT ![p] = r.lock]
    /\ pc' = [pc EXCEPT ![p] = "done"]
    /\ mem' = [mem EXCEPT ![p] = EmptyDict]
    /\ loaded' = [loaded EXCEPT ![p] = MissingFile]
    /\ UNCHANGED <<file, read, write, err, body, acquired, released, calls,
                   hist, pids>>

\* rwlock lines 101-103 once more, for the same read and write sets
ReleaseAgain(p) ==
    /\ pc[p] = "done"
    /\ released[p] = 1
    /\ StartCycle(p, "rel")
    /\ UNCHANGED <<file, gate, read, write, mem, loaded, err, body, acquired,
                   released, calls, hist, pids, _lock>>

\* the caller drops the sets
Forget(p) ==
    /\ pc[p] = "done"
    /\ EndCall(p)
    /\ UNCHANGED <<file, gate, mem, loaded, err, body, acquired, released,
                   calls, named, overlap, pids, _lock>>

\* Lock.__exit__ after the acquire cycle
UnlockAcquire(p) == pc[p] = "acq_unlock" /\ Unlock(p)

StepAgain(p) ==
    \/ Call(p)
    \/ LockFirst(p)
    \/ LockSecond(p)
    \/ Load(p)
    \/ Acquire(p)
    \/ Save(p)
    \/ UnlockAcquire(p)
    \/ UnlockKeep(p)
    \/ Raise(p)
    \/ Body(p)
    \/ Release(p)
    \/ ReleaseAgain(p)
    \/ Forget(p)

NextAgain == \E p \in Procs : StepAgain(p)

SpecAgain == Init /\ [][NextAgain]_vars

(* --------------------------- abnormal ends ----------------------------- *)
\* the operating system drops the lock of a process that is gone
os_release(g, p) == IF g = p THEN 0 ELSE g

\* lines 27-28 cut short: open(path, "w+") has truncated the file and
\* json.dump has written all, part or nothing of the text
torn_dump(f) == {f, CorruptFile}

\* a process inside rwlock is killed: nothing of rwlock or Lock runs any
\* more; while it was rewriting the document the file may be left torn
Crash(p) ==
    /\ pc[p] \notin {"idle", "dead"}
    /\ Cardinality({q \in Procs : pc[q] = "dead"}) < MaxCrashes
    /\ pc' = [pc EXCEPT ![p] = "dead"]
    /\ gate' = os_release(gate, getpid(p))
    /\ file' \in IF At(p, "save") THEN torn_dump(file) ELSE {file}
    /\ read' = [read EXCEPT ![p] = <<>>]
    /\ write' = [write EXCEPT ![p] = <<>>]
    /\ mem' = [mem EXCEPT ![p] = EmptyDict]
    /\ loaded' = [loaded EXCEPT ![p] = MissingFile]
    /\ err' = [err EXCEPT ![p] = NoError]
    /\ body' = [body EXCEPT ![p] = "none"]
    /\ acquired' = [acquired EXCEPT ![p] = FALSE]
    /\ released' = [released EXCEPT ![p] = 0]
    /\ refused' = [refused EXCEPT ![p] = ""]
    /\ leaked' = TRUE
    /\ _lock' = [_lock EXCEPT ![p] = FALSE]
    /\ UNCHANGED <<calls, named, overlap, pids>>

NextCrash == Next \/ \E p \in Procs : Crash(p)

SpecCrash == Init /\ [][NextCrash]_vars

(* ------------------- nested guards of one process --------------------- *)
\* the arguments of a call made inside another guard's body
ArgsNested ==
    {a \in SeqsUpTo(Paths, MaxNestedPaths) \X SeqsUpTo(Paths, MaxNestedPaths) :
        Len(a[1]) + Len(a[2]) <= MaxNestedPaths}

\* the callers are guards of one and the same process
InitNested ==
    /\ Idle
    /\ pids = [p \in Procs |-> 1]
    /\ file \in {MissingFile, CorruptFile}
    /\ overlap = FALSE
    /\ leaked = FALSE

\* a guard is entered inside the bodies of the guards around it (line 99,
\* the yield): callers with a lower number are the outer guards
CallNested(p) ==
    /\ \A q \in Procs : q < p => pc[q] = "body"
    /\ CallWith(p, ArgsNested)

\* the body of a guard ends after the guards entered inside it are left
BodyNested(p) ==
    /\ \A q \in Procs : q > p => pc[q] = "idle"
    /\ Body(p)

StepNested(p) ==
    \/ CallNested(p)
    \/ LockFirst(p)
    \/ Load(p)
    \/ Acquire(p)
    \/ Save(p)
    \/ Unlock(p)
    \/ Raise(p)
    \/ BodyNested(p)
    \/ Release(p)

NextNested == \E p \in Procs : StepNested(p)

SpecNested == InitNested /\ [][NextNested]_vars

(* ----------------------- the gate object on its own ------------------- *)
\* Lock.lock lines 45-49 called on the caller's gate object: the first
\* attempt; contested, the call goes to sleep
Lock_lock(p) ==
    /\ pc[p] = "idle"
    /\ calls < MaxLockCalls
    /\ calls' = calls + 1
    /\ LET r == _do_lock(gate, getpid(p))
       IN  /\ gate' = r.gate
           /\ _lock' = [_lock EXCEPT ![p] = r.ok \/ _lock[p]]
           /\ pc' = [pc EXCEPT ![p] = IF r.ok THEN "idle" ELSE "sleep"]
    /\ err' = [err EXCEPT ![p] = NoError]
    /\ UNCHANGED <<file, read, write, mem, loaded, body, acquired, released,
                   hist, pids>>

\* Lock.lock line 51: the attempt after the sleep, its LockError leaves
\* the call
Lock_lock_retry(p) ==
    /\ pc[p] = "sleep"
    /\ LET r == _do_lock(gate, getpid(p))
       IN  /\ gate' = r.gate
           /\ _lock' = [_lock EXCEPT ![p] = r.ok \/ _lock[p]]
           /\ err' = [err EXCEPT ![p] = IF r.ok THEN NoError ELSE GateBusy]
    /\ pc' = [pc EXCEPT ![p] = "idle"]
    /\ UNCHANGED <<file, read, write, mem, loaded, body, acquired, released,
                   calls, hist, pids>>

\* Lock.unlock lines 53-55 called on the caller's gate object, whatever
\* its _lock is
Lock_unlock(p) ==
    /\ pc[p] = "idle"
    /\ calls < MaxLockCalls
    /\ calls' = calls + 1
    /\ LET r == unlock(gate, _lock[p], getpid(p))
       IN  /\ gate' = r.gate
           /\ _lock' = [_lock EXCEPT ![p] = r.lock]
           /\ err' = [err EXCEPT ![p] = r.err]
    /\ UNCHANGED <<file, pc, read, write, mem, loaded, body, acquired,
                   released, hist, pids>>

StepLock(p) ==
    \/ Lock_lock(p)
    \/ Lock_lock_retry(p)
    \/ Lock_unlock(p)

NextLock == \E p \in Procs : StepLock(p)

SpecLock == Init /\ [][NextLock]_vars

(* ------------------------------- claims ------------------------------- *)
loadedDoc(p) == rwlock_load(loaded[p])
\* the acquire cycle saved and no release cycle has saved yet
Holding(p) == acquired[p] /\ released[p] = 0 /\ pc[p] # "idle"
\* between _rwlock's load and its dump (or the exception that skips it)
InCycle(p) == pc[p] \in {"acq_mut", "acq_save", "acq_raise",
                         "rel_mut", "rel_save", "rel_raise"}
Entry(d, path) == IF path \in DOMAIN d THEN d[path] ELSE <<>>
Occurrences(s, x) == Cardinality({i \in 1..Len(s) : s[i] = x})
IsPrefix(s, t) == Len(s) <= Len(t) /\ SubSeq(t, 1, Len(s)) = s

DisjointEntries ==
    \A p \in Procs :
        pc[p] = "body"
        => /\ \A x \in Range(write[p]) :
                 Entry(file.data, x) = [writer |-> getpid(p)]
           /\ \A x \in Range(read[p]) :
                 Entry(file.data, x) = [readers |-> <<getpid(p)>>]
AllOver == \A p \in Procs : pc[p] = "idle"

C4_WriterXorReaders ==
    \A x \in DOMAIN file.data :
        ~(get_writer(file.data[x]) # 0 /\ get_readers(file.data[x]) # <<>>)

C4_Witness ==
    \E x, y \in DOMAIN file.data :
        /\ get_writer(file.data[x]) # 0
        /\ Len(get_readers(file.data[y])) = NProcs

\* C5: from the moment a check of an acquire has failed until the call is
\* over, the file is what the call loaded, and the step that ends the call
\* leaves it so, whatever the call had already changed in memory.
C5_AllOrNothing ==
    [][\A p \in Procs :
          pc[p] = "acq_raise" => (file = loaded[p] /\ file' = file)]_vars

C5_Witness ==
    \E p \in Procs :
        /\ pc[p] = "acq_raise" /\ err[p].kind = "readers"
        /\ mem[p] # loadedDoc(p) /\ loadedDoc(p) # EmptyDict

\* the acquire of the call has run on the loaded dict
AfterAcquire(p) == pc[p] \in {"acq_save", "acq_raise"}
FirstIndex(s, x) == CHOOSE i \in 1..Len(s) : s[i] = x /\ \A j \in 1..(i-1) : s[j] # x
\* the paths rwlock handles before it first handles x as a read path
BeforeRead(p, x) == {read[p][j] : j \in 1..(FirstIndex(read[p], x) - 1)}
\* the paths rwlock handles before it first handles x as a write path
BeforeWrite(p, x) ==
    Range(read[p]) \cup {write[p][j] : j \in 1..(FirstIndex(write[p], x) - 1)}
Repeat(v, n) == [i \in 1..n |-> v]

\* C6, as claimed: when the loaded entry of a write path x has readers, the
\* acquire fails with the readers LockError for x, listing those readers,
\* and the file's entry of x is as loaded.
C6_AsClaimed ==
    \A b \in Procs, x \in Paths :
        (/\ AfterAcquire(b) /\ x \in Range(write[b])
         /\ Range(get_readers(Entry(loadedDoc(b), x))) \ {getpid(b)} # {})
        => /\ pc[b] = "acq_raise"
           /\ err[b].kind = "readers" /\ err[b].path = x
           /\ IsPrefix(get_readers(Entry(loadedDoc(b), x)), err[b].readers)
           /\ Entry(file.data, x) = Entry(loadedDoc(b), x)

\* C6, amended: the acquire fails with a LockError and the file's entry of
\* x is as loaded; the error is the readers LockError for x, listing the
\* loaded readers, unless a path handled earlier in the same call fails
\* first, and then it names that path.
C6_ReadThenWrite ==
    \A b \in Procs, x \in Paths :
        (/\ AfterAcquire(b) /\ x \in Range(write[b])
         /\ get_readers(Entry(loadedDoc(b), x)) # <<>>)
        => /\ pc[b] = "acq_raise"
           /\ err[b].kind \in {"readers", "writer"}
           /\ Entry(file.data, x) = Entry(loadedDoc(b), x)
           /\ err[b].path = x
              => /\ err[b].kind = "readers"
                 /\ IsPrefix(get_readers(Entry(loadedDoc(b), x)),
                             err[b].readers)
           /\ err[b].path # x => err[b].path \in BeforeWrite(b, x)

C6_Witness ==
    \E a, b \in Procs :
        /\ a # b /\ pc[a] = "body" /\ pc[b] = "acq_raise"
        /\ err[b] = ReadersBusy("X", <<getpid(a)>>)
        /\ write[b] = <<"X">>

\* C7, as claimed: when the loaded entry of a write path x has a writer,
\* the acquire fails with the writer LockError for x and that writer.
C7_AsClaimed ==
    \A b \in Procs, x \in Paths :
        (/\ AfterAcquire(b) /\ x \in Range(write[b])
         /\ get_writer(Entry(loadedDoc(b), x)) \notin {0, getpid(b)})
        => /\ pc[b] = "acq_raise"
           /\ err[b] = WriterBusy(x, get_writer(Entry(loadedDoc(b), x)))

\* C7, amended: the acquire fails; the error is the writer LockError for x
\* and its writer, also when the entry has readers as well, unless a path
\* handled earlier in the same call fails first, and then it names that
\* path.
C7_WriteThenWrite ==
    \A b \in Procs, x \in Paths :
        (/\ AfterAcquire(b) /\ x \in Range(write[b])
         /\ get_writer(Entry(loadedDoc(b), x)) # 0)
        => /\ pc[b] = "acq_raise"
           /\ err[b].path = x
              => err[b] = WriterBusy(x, get_writer(Entry(loadedDoc(b), x)))
           /\ err[b].path # x => err[b].path \in BeforeWrite(b, x)

C7_Witness ==
    \E b \in Procs :
        /\ pc[b] = "acq_raise" /\ read[b] = <<>> /\ write[b] = <<"X">>
        /\ err[b].kind = "writer" /\ err[b].writer # getpid(b)
        /\ get_readers(Entry(loadedDoc(b), "X")) # <<>>

\* C8, as claimed: when the loaded entry of a read path x has a writer, the
\* acquire fails with the writer LockError for x and that writer, and the
\* file's entry of x does not list the caller.
C8_AsClaimed ==
    \A b \in Procs, x \in Paths :
        (/\ AfterAcquire(b) /\ x \in Range(read[b])
         /\ get_writer(Entry(loadedDoc(b), x)) \notin {0, getpid(b)})
        => /\ pc[b] = "acq_raise"
           /\ err[b] = WriterBusy(x, get_writer(Entry(loadedDoc(b), x)))
           /\ ~InList(get_readers(Entry(file.data, x)), getpid(b))

\* C8, amended: the acquire fails with a writer LockError and the file's
\* entry of x does not list the caller; the error names x and its writer
\* unless an earlier read path of the same call is write-locked too, and
\* then it names that path.
C8_WriteThenRead ==
    \A b \in Procs, x \in Paths :
        (/\ AfterAcquire(b) /\ x \in Range(read[b])
         /\ get_writer(Entry(loadedDoc(b), x)) # 0)
        => /\ pc[b] = "acq_raise"
           /\ err[b].kind = "writer"
           /\ ~InList(get_readers(Entry(file.data, x)), getpid(b))
           /\ err[b].path = x
              => err[b] = WriterBusy(x, get_writer(Entry(loadedDoc(b), x)))
           /\ err[b].path # x
              => /\ err[b].path \in BeforeRead(b, x)
                 /\ err[b].writer =
                        get_writer(Entry(loadedDoc(b), err[b].path))

C8_Witness ==
    \E a, b \in Procs :
        /\ a # b /\ pc[a] = "body" /\ pc[b] = "acq_raise"
        /\ read[b] = <<"Y", "X">>
        /\ err[b] = WriterBusy("X", getpid(a))
        /\ mem[b] # loadedDoc(b)

\* C9: a read path whose loaded entry is absent or has readers only never
\* makes the acquire fail: once the read loop has passed it, its entry is
\* the loaded readers followed by the caller, with no writer; an acquire
\* of read paths only fails only on a write-locked path; and what the
\* acquire saves for each read path is the loaded readers followed by the
\* caller, once per occurrence.
C9_SharedReads ==
    \A p \in Procs :
        /\ AfterAcquire(p)
           => \A i \in 1..Len(read[p]) :
                 (\A j \in 1..i :
                     get_writer(Entry(loadedDoc(p), read[p][j])) = 0)
                 => LET x == read[p][i]
                        was == get_readers(Entry(loadedDoc(p), x))
                        now == Entry(mem[p], x)
                    IN  /\ DOMAIN now = {"readers"}
                        /\ \E k \in Occurrences(SubSeq(read[p], 1, i), x)
                                    ..Len(read[p]) :
                              now["readers"] = was \o Repeat(getpid(p), k)
        /\ (pc[p] = "acq_raise" /\ write[p] = <<>>)
           => /\ err[p].kind = "writer"
              /\ get_writer(Entry(loadedDoc(p), err[p].path)) # 0
        /\ pc[p] = "acq_unlock"
           => \A x \in Range(read[p]) :
                 Entry(file.data, x) =
                    [readers |-> get_readers(Entry(loadedDoc(p), x))
                                 \o Repeat(getpid(p),
                                           Occurrences(read[p], x))]

C9_Witness ==
    /\ \A p \in Procs : pc[p] = "body" /\ read[p] = <<"X">>
    /\ Len(get_readers(Entry(file.data, "X"))) = NProcs

\* registrations of pid in a document: as writer, and once per listing
\* among readers
RECURSIVE RegsIn(_, _, _)
RegsIn(d, S, pid) ==
    IF S = {} THEN 0
    ELSE LET x == CHOOSE y \in S : TRUE
         IN  (IF "writer" \in DOMAIN d[x] /\ d[x]["writer"] = pid
                 THEN 1 ELSE 0)
             + Occurrences(get_readers(d[x]), pid)
             + RegsIn(d, S \ {x}, pid)
Regs(d, pid) == RegsIn(d, DOMAIN d, pid)

OthersHold(d, path, pid) ==
    \/ get_writer(Entry(d, path)) \notin {0, pid}
    \/ Range(get_readers(Entry(d, path))) \ {pid} # {}
CallPaths(p) == Range(read[p]) \cup Range(write[p])

NotHeldBy(d, path, pid) ==
    /\ get_writer(Entry(d, path)) # pid
    /\ ~InList(get_readers(Entry(d, path)), pid)
\* every entry is one the acquire loops write: a writer and nothing else,
\* or a non-empty list of readers and nothing else
WriterOrReaders(d) ==
    \A x \in DOMAIN d :
        \/ DOMAIN d[x] = {"writer"} /\ d[x]["writer"] # 0
        \/ DOMAIN d[x] = {"readers"} /\ d[x]["readers"] # <<>>
\* the release loops of a cycle that no acquire preceded have run
ReleasedUnheld(p) ==
    /\ pc[p] \in {"rel_save", "rel_raise"} /\ ~acquired[p]
    /\ COMPLIED_SCHEMA(loaded[p]) = NoError
    /\ WriterOrReaders(loadedDoc(p))
    /\ \A x \in CallPaths(p) : NotHeldBy(loadedDoc(p), x, getpid(p))

\* C12, as claimed: a release cycle for paths on none of which the process
\* is registered, on a document of writer-only and readers-only entries,
\* raises nothing and leaves the loaded state as it was.
C12_AsClaimed ==
    \A p \in Procs :
        ReleasedUnheld(p) => (pc[p] = "rel_save" /\ mem[p] = loadedDoc(p))

\* C12, the failing case reached: X is write-locked by another process and
\* released as a read path, and the release raised KeyError.
C12_Witness ==
    \E p, q \in Procs :
        /\ p # q /\ ReleasedUnheld(p)
        /\ read[p] = <<"X">> /\ write[p] = <<>>
        /\ loadedDoc(p) = [x \in {"X"} |-> [writer |-> getpid(q)]]
        /\ pc[p] = "rel_raise" /\ err[p] = KeyError("X")

\* the release loops have run a second time for the sets of a call whose
\* first release cycle saved
SecondRelease(p) == pc[p] \in {"rel_save", "rel_raise"} /\ released[p] = 1

FreshLoad(p) ==
    /\ pc[p] \in {"acq_mut", "acq_save", "acq_raise", "acq_unlock"}
    /\ loaded[p].kind \in {"missing", "corrupt"}
\* the entries of one call on an empty state: a writer for each write
\* path, the caller once per occurrence for each read path
NewEntries(p) ==
    [x \in CallPaths(p) |->
        IF x \in Range(write[p]) THEN [writer |-> getpid(p)]
        ELSE [readers |-> Repeat(getpid(p), Occurrences(read[p], x))]]
\* the call names a path twice among its write paths, or as a read path
\* and as a write path
SelfConflict(p) ==
    ~NoDup(write[p]) \/ Range(read[p]) \cap Range(write[p]) # {}

\* C14, as claimed: an acquire that loaded a missing or unparsable file
\* starts from the empty state, does not fail, and saves exactly the
\* caller's new entries, whatever its read set and its write set (each
\* without repetitions).
C14_AsClaimed ==
    \A p \in Procs :
        (FreshLoad(p) /\ NoDup(read[p]) /\ NoDup(write[p]))
        => /\ pc[p] = "acq_mut" => mem[p] = EmptyDict
           /\ pc[p] # "acq_raise"
           /\ pc[p] = "acq_unlock" => file = json_dump(NewEntries(p))

\* C14, amended: such an acquire starts from the empty state; it fails
\* exactly when the call conflicts with itself, then with a LockError that
\* names the caller's own pid and with the file left as it was; otherwise
\* it saves exactly the caller's new entries.
C14_CorruptResilience ==
    \A p \in Procs :
        FreshLoad(p)
        => /\ pc[p] = "acq_mut" => mem[p] = EmptyDict
           /\ pc[p] = "acq_raise"
              => /\ SelfConflict(p)
                 /\ file = loaded[p]
                 /\ \/ err[p].kind = "writer" /\ err[p].writer = getpid(p)
                    \/ /\ err[p].kind = "readers"
                       /\ Range(err[p].readers) = {getpid(p)}
           /\ pc[p] = "acq_save" => ~SelfConflict(p)
           /\ pc[p] = "acq_unlock" => file = json_dump(NewEntries(p))

C14_Witness ==
    \E p \in Procs :
        /\ pc[p] = "acq_unlock" /\ loaded[p] = CorruptFile
        /\ read[p] = <<"X">> /\ write[p] = <<"Y">>
        /\ file = json_dump([x \in {"X", "Y"} |->
                               IF x = "X" THEN [readers |-> <<getpid(p)>>]
                                          ELSE [writer |-> getpid(p)]])

\* the cycle of p read a file that parses and does not conform to SCHEMA
NonconformingLoad(p) ==
    /\ pc[p] \in {"acq_mut", "acq_save", "acq_raise", "acq_unlock",
                  "rel_mut", "rel_save", "rel_raise", "rel_unlock"}
    /\ loaded[p].kind \in NonconformingKinds

\* C15, as claimed: a cycle that read nonconforming content does not raise
\* on account of it; the content is taken for the empty state.
C15_AsClaimed ==
    \A p \in Procs :
        NonconformingLoad(p)
        => /\ err[p] # Invalid
           /\ pc[p] \in {"acq_mut", "rel_mut"} => mem[p] = EmptyDict

\* C15, the failing case reached: an acquire on a document with an unknown
\* field in an entry ended with the validation's exception, the file as it
\* was.
C15_Witness ==
    \E p \in Procs :
        /\ NonconformingLoad(p) /\ loaded[p].kind = "unknown key"
        /\ pc[p] = "acq_raise" /\ err[p] = Invalid
        /\ write[p] = <<"X">> /\ file = loaded[p]

\* between Lock.lock returning and Lock.unlock: Lock._lock is set
HoldsGate(p) ==
    pc[p] \in {"acq_load", "acq_mut", "acq_save", "acq_unlock", "acq_raise",
               "rel_load", "rel_mut", "rel_save", "rel_unlock", "rel_raise"}
\* inside Lock.lock, before an attempt
InLock(p) == At(p, "lock") \/ At(p, "sleep")

\* C16: no two processes are past Lock.lock and before Lock.unlock at the
\* same time, the process that is there is the one the lock file is locked
\* for, and an attempt made while the lock file is locked leaves the
\* attempting process outside and the lock file with its holder.
C16_GateExclusion ==
    /\ [](\A p, q \in Procs :
             /\ (HoldsGate(p) /\ HoldsGate(q)) => p = q
             /\ HoldsGate(p) => gate = getpid(p))
    /\ [][\A q \in Procs :
             (InLock(q) /\ gate # 0 /\ pc'[q] # pc[q])
             => (~HoldsGate(q)' /\ gate' = gate)]_vars

C16_Witness ==
    \E p, q \in Procs :
        /\ p # q /\ HoldsGate(p) /\ gate = getpid(p)
        /\ pc[q] = "idle" /\ err[q] = GateBusy

\* the two attempts of Lock.lock are straight-line code: a process inside
\* Lock.lock goes on to its next attempt
LockFair == \A p \in Procs : WF_vars(LockFirst(p) \/ LockSecond(p))
SpecFair == Spec /\ LockFair

\* C17: the first attempt of Lock.lock returns holding the gate exactly
\* when the lock file is unlocked, and otherwise (and only then) goes to
\* the sleep; the attempt after the sleep returns holding the gate when the
\* lock file is unlocked and otherwise raises LockError with the fixed
\* message, leaving the lock file to its holder; no attempt blocks, and
\* every Lock.lock entered is left.
C17_TwoAttempts ==
    /\ [](\A p \in Procs :
             InLock(p) => ENABLED (LockFirst(p) \/ LockSecond(p)))
    /\ [][\A p \in Procs :
             /\ (At(p, "lock") /\ pc'[p] # pc[p])
                => /\ gate = 0 => (HoldsGate(p)' /\ gate' = getpid(p))
                   /\ gate # 0 => (At(p, "sleep")' /\ gate' = gate)
                   /\ err'[p] = NoError
             /\ (At(p, "sleep") /\ pc'[p] # pc[p])
                => /\ gate = 0 => (HoldsGate(p)' /\ gate' = getpid(p))
                   /\ gate # 0 => /\ pc'[p] = "idle" /\ err'[p] = GateBusy
                                  /\ gate' = gate]_vars
    /\ \A p \in Procs : InLock(p) ~> ~InLock(p)

C17_Witness ==
    \E p, q \in Procs :
        /\ p # q /\ pc[p] = "rel_load" /\ pc[q] = "rel_sleep"
        /\ body[p] = "ok" /\ body[q] = "failed"

\* C18: a process inside the region of "with lock:" has the lock file
\* locked; every step that takes it out of the region, after a cycle that
\* ended normally as after one whose body raised, leaves the lock file
\* unlocked; whenever the lock file is unlocked, the next attempt of any
\* process inside Lock.lock succeeds; and a Lock.lock that raises leaves
\* the lock file locked for the process that held it.
C18_ScopedGate ==
    /\ [](\A p \in Procs :
             /\ HoldsGate(p) => gate = getpid(p)
             /\ (gate = 0 /\ InLock(p))
                => ENABLED ((LockFirst(p) \/ LockSecond(p)) /\ HoldsGate(p)'))
    /\ [][\A p \in Procs :
             /\ (HoldsGate(p) /\ ~HoldsGate(p)') => gate' = 0
             /\ (InLock(p) /\ pc'[p] = "idle")
                => /\ err'[p] = GateBusy
                   /\ gate' = gate /\ gate \notin {0, getpid(p)}]_vars

C18_Witness ==
    \E p, q \in Procs :
        /\ p # q /\ gate = 0
        /\ pc[p] = "idle" /\ err[p].kind \in {"writer", "readers"}
        /\ pc[q] = "rel_sleep"

Dead(p) == pc[p] = "dead"
\* what document d registers for pid on path: whether it is the writer,
\* and how often it is listed among the readers
StaleOf(d, path, pid) ==
    <<get_writer(Entry(d, path)) = pid,
      Occurrences(get_readers(Entry(d, path)), pid)>>
\* the acquire of q ran into an entry of a process that is gone: one of its
\* write paths has the dead process as writer or reader, or one of its
\* read paths has it as writer
MeetsStale(q) ==
    /\ AfterAcquire(q)
    /\ \E p \in Procs :
          /\ Dead(p)
          /\ \/ \E x \in Range(write[q]) :
                   ~NotHeldBy(loadedDoc(q), x, getpid(p))
             \/ \E x \in Range(read[q]) :
                   get_writer(Entry(loadedDoc(q), x)) = getpid(p)
\* after a process is gone: it does not have the lock file locked, and an
\* acquire that conflicts with one of its entries fails with a LockError
\* about a path
AfterCrash ==
    \A p \in Procs :
        /\ Dead(p) => gate # getpid(p)
        /\ MeetsStale(p)
           => (pc[p] = "acq_raise" /\ err[p].kind \in {"writer", "readers"})
\* the step leaves what the document registers for p as it was
StaleKept(p) ==
    \A x \in Paths :
        StaleOf(rwlock_load(file'), x, getpid(p))
        = StaleOf(rwlock_load(file), x, getpid(p))
\* the step in which process p ends abnormally
Crashes(p) == ~Dead(p) /\ Dead(p)'
\* ... while it was rewriting the document
CrashesInDump(p) == Crashes(p) /\ At(p, "save")

Retries(b, x) == refused[b] = x /\ x \in Range(write[b])
\* ... and its acquire cycle loaded a document with no entry for x
RetryFree(b, x) ==
    /\ Retries(b, x)
    /\ pc[b] \in {"acq_mut", "acq_save", "acq_raise", "acq_unlock"}
    /\ x \notin DOMAIN loadedDoc(b)
\* the call names x as its only path
Only(b, x) == read[b] = <<>> /\ write[b] = <<x>>
\* what each stage of a retry shows once it got that far
RetryStages ==
    \A b \in Procs, x \in Paths :
        /\ (RetryFree(b, x) /\ pc[b] = "acq_save")
           => Entry(mem[b], x) = [writer |-> getpid(b)]
        /\ (RetryFree(b, x) /\ pc[b] = "acq_unlock")
           => Entry(file.data, x) = [writer |-> getpid(b)]
        /\ (Retries(b, x) /\ pc[b] = "body")
           => Entry(file.data, x) = [writer |-> getpid(b)]
        /\ (Retries(b, x) /\ pc[b] = "rel_unlock")
           => x \notin DOMAIN file.data

PathState(d, x) ==
    IF get_writer(Entry(d, x)) # 0
       THEN <<"WriteLocked", get_writer(Entry(d, x))>>
    ELSE IF get_readers(Entry(d, x)) # <<>>
       THEN <<"ReadLocked", Range(get_readers(Entry(d, x)))>>
    ELSE <<"Free">>

InRelease(p) ==
    pc[p] \in {"rel_lock", "rel_sleep", "rel_load", "rel_mut", "rel_save",
               "rel_unlock", "rel_raise"}
\* the list without the entries equal to pid
Without(s, pid) == SelectSeq(s, LAMBDA v : v # pid)
\* what the release loops of p made of the loaded entry of x: the writer
\* is as loaded, or was p on a write path of the call and is cleared; the
\* readers are as loaded but for at most one listing of p per occurrence
\* of x among the read paths
OwnOnly(p, x) ==
    LET was == Entry(loadedDoc(p), x)
        now == Entry(mem[p], x)
    IN  /\ \/ get_writer(now) = get_writer(was)
           \/ /\ get_writer(was) = getpid(p) /\ get_writer(now) = 0
              /\ x \in Range(write[p])
        /\ Without(get_readers(now), getpid(p))
           = Without(get_readers(was), getpid(p))
        /\ Occurrences(get_readers(was), getpid(p))
           - Occurrences(get_readers(now), getpid(p))
           \in 0..Occurrences(read[p], x)

NoEmptyEntry(d) == \A x \in DOMAIN d : PathState(d, x) # <<"Free">>

\* C23: the persisted document never has a key whose entry has neither a
\* writer nor a non-empty readers list, nor has the document a release
\* cycle is about to dump; and when the release loops leave a path that
\* was held without any holder, the path has no key any more.
C23_NoEmptyEntries ==
    /\ NoEmptyEntry(rwlock_load(file))
    /\ \A p \in Procs :
          pc[p] = "rel_save"
          => /\ NoEmptyEntry(mem[p])
             /\ \A x \in DOMAIN loadedDoc(p) :
                   PathState(mem[p], x) = <<"Free">> => x \notin DOMAIN mem[p]

\* C23, the case reached: the release cycle removed the last holder of
\* two write-locked paths and dumped a document without keys.
C23_Witness ==
    \E p \in Procs :
        /\ pc[p] = "rel_unlock" /\ write[p] = <<"X", "Y">>
        /\ loadedDoc(p) = [x \in {"X", "Y"} |-> [writer |-> getpid(p)]]
        /\ file = json_dump(EmptyDict)

\* the acquire loops of p have run for read paths only, on a conforming
\* document in which none of them has a non-empty writer and x, one of
\* them, has an entry
ReadAcquired(p, x) ==
    /\ AfterAcquire(p) /\ write[p] = <<>> /\ x \in Range(read[p])
    /\ COMPLIED_SCHEMA(loaded[p]) = NoError
    /\ x \in DOMAIN loadedDoc(p)
    /\ \A y \in Range(read[p]) : get_writer(Entry(loadedDoc(p), y)) = 0

\* C24, as claimed: a read acquire on a path whose entry has no non-empty
\* writer succeeds, whether or not the entry has a readers field, and the
\* path's readers then contain the caller.
C24_AsClaimed ==
    \A p \in Procs : \A x \in Paths :
        ReadAcquired(p, x)
        => /\ pc[p] = "acq_save"
           /\ InList(get_readers(Entry(mem[p], x)), getpid(p))

\* C24, the failing case reached: the entry of X has no field at all, and
\* the read acquire on X raised KeyError.
C24_Witness ==
    \E p \in Procs :
        /\ ReadAcquired(p, "X") /\ read[p] = <<"X">>
        /\ loadedDoc(p) = [x \in {"X"} |-> <<>>]
        /\ pc[p] = "acq_raise" /\ err[p] = KeyError("X")

\* the error of a check: a LockError about a path
Conflict(e) == e.kind \in {"writer", "readers"}

\* C25: the step of the acquire loops that meets a conflict ends the cycle
\* with that LockError, on the document loaded once; the refused process
\* is never blocked, its next step ends the call with the same error and
\* without touching the file, and it releases the gate; a cycle loads only
\* after Lock.lock, and Lock.lock is entered for an acquire only by a new
\* call; so a process inside its body was not refused in this call.
C25_NoRetry ==
    /\ [](\A p \in Procs :
             /\ pc[p] = "acq_raise" => ENABLED Raise(p)
             /\ pc[p] = "body" => err[p] = NoError)
    /\ [][\A p \in Procs :
             /\ (pc[p] = "acq_mut" /\ pc'[p] # pc[p])
                => LET r == rwlock_acquire(mem[p], read[p], write[p],
                                           getpid(p))
                   IN  /\ Conflict(r.err)
                          => /\ pc'[p] = "acq_raise" /\ err'[p] = r.err
                             /\ loaded'[p] = loaded[p] /\ file' = file
                       /\ r.err = NoError => pc'[p] = "acq_save"
             /\ (pc[p] = "acq_raise" /\ pc'[p] # pc[p])
                => /\ pc'[p] = "idle" /\ err'[p] = err[p]
                   /\ file' = file /\ calls' = calls
                   /\ gate = getpid(p) /\ gate' = 0
             /\ (pc'[p] = "acq_load" /\ pc[p] # "acq_load")
                => pc[p] \in {"acq_lock", "acq_sleep"}
             /\ (pc'[p] = "acq_lock" /\ pc[p] # "acq_lock")
                => (pc[p] = "idle" /\ calls' = calls + 1)]_vars

\* C25, the case reached: a process refused on write path X is inside the
\* body of a later call that names X again.
C25_Witness ==
    \E b \in Procs :
        /\ Retries(b, "X") /\ pc[b] = "body" /\ write[b] = <<"X">>
        /\ Entry(file.data, "X") = [writer |-> getpid(b)]

RECURSIVE ReadRegs(_, _, _)
\* the registrations as reader of x that the guards in S of the process v
\* have made and not yet released: one per occurrence of x among the read
\* paths of each guard between its acquire's dump and its release's dump
ReadRegs(S, x, v) ==
    IF S = {} THEN 0
    ELSE LET a == CHOOSE b \in S : TRUE
         IN  (IF getpid(a) = v /\ Holding(a)
                 THEN Occurrences(read[a], x) ELSE 0)
             + ReadRegs(S \ {a}, x, v)
ReaderCount(d, x, v) == Occurrences(get_readers(Entry(d, x)), v)

\* C26: as long as no release cycle was skipped, the persisted readers of
\* each path list a process once per registration its guards have made and
\* not released, so the path is ReadLocked by it while one is left; an
\* acquire adds the process once per occurrence of the path among its read
\* paths, and a release removes one listing per occurrence.
C26_NoDedup ==
    \A x \in Paths :
        /\ \A p \in Procs :
              ~leaked
              => /\ ReaderCount(rwlock_load(file), x, getpid(p))
                    = ReadRegs(Procs, x, getpid(p))
                 /\ ReadRegs(Procs, x, getpid(p)) > 0
                    => /\ PathState(rwlock_load(file), x)[1] = "ReadLocked"
                       /\ getpid(p) \in PathState(rwlock_load(file), x)[2]
        /\ \A p \in Procs :
              /\ pc[p] = "acq_save"
                 => ReaderCount(mem[p], x, getpid(p))
                    = ReaderCount(loadedDoc(p), x, getpid(p))
                      + Occurrences(read[p], x)
              /\ (pc[p] = "rel_save" /\ ReaderCount(loadedDoc(p), x, getpid(p))
                                        >= Occurrences(read[p], x))
                 => ReaderCount(mem[p], x, getpid(p))
                    = ReaderCount(loadedDoc(p), x, getpid(p))
                      - Occurrences(read[p], x)

\* C26, the case reached: inside a guard that reads X the process entered
\* a guard that reads X twice; the inner release found the process listed
\* three times and left it listed once.
C26_Witness ==
    \E p, q \in Procs :
        /\ p # q /\ getpid(p) = getpid(q)
        /\ pc[p] = "body" /\ read[p] = <<"X">>
        /\ pc[q] = "rel_unlock" /\ read[q] = <<"X", "X">>
        /\ get_readers(Entry(loadedDoc(q), "X")) = Repeat(getpid(p), 3)
        /\ Entry(file.data, "X") = [readers |-> <<getpid(p)>>]

\* the acquire loops of p have run for a call that names x as a read path
\* and as a write path, on a document in which x has no writer
SharedPath(p, x) ==
    /\ AfterAcquire(p)
    /\ x \in Range(read[p]) \cap Range(write[p])
    /\ get_writer(Entry(loadedDoc(p), x)) = 0
\* the acquire loops of p have run for a call that names x, on a document
\* in which the process of p is the writer of x
NestedOnOwnWrite(p, x) ==
    /\ AfterAcquire(p) /\ x \in CallPaths(p)
    /\ get_writer(Entry(loadedDoc(p), x)) = getpid(p)
\* a refused acquire dumps nothing and its call ends without the body
RefusedEnds ==
    [][\A p \in Procs :
          (pc[p] = "acq_raise" /\ pc'[p] # pc[p])
          => (pc'[p] = "idle" /\ file' = file /\ body'[p] = "none")]_vars

\* C27, as claimed: a call that names X as a read path and as a write
\* path, X without a writer, fails with the readers LockError for X that
\* lists the caller's own pid, with the file as loaded and no body; and an
\* acquire that names a path the process itself is the writer of fails
\* with a LockError about a path.
C27_AsClaimed ==
    /\ [](\A p \in Procs : \A x \in Paths :
             /\ SharedPath(p, x)
                => /\ pc[p] = "acq_raise" /\ file = loaded[p]
                   /\ err[p].kind = "readers" /\ err[p].path = x
                   /\ InList(err[p].readers, getpid(p))
             /\ NestedOnOwnWrite(p, x)
                => (pc[p] = "acq_raise" /\ Conflict(err[p])))
    /\ RefusedEnds

\* C27, amended: such a call fails with a LockError, the file as loaded
\* and no body; the error is the readers LockError for X that lists the
\* caller's own pid unless a path handled earlier in the same call fails
\* first, and then it names that path; the nested acquire on a path the
\* process is the writer of fails as claimed.
C27_SelfConflict ==
    /\ [](\A p \in Procs : \A x \in Paths :
             /\ SharedPath(p, x)
                => /\ pc[p] = "acq_raise" /\ file = loaded[p]
                   /\ Conflict(err[p])
                   /\ err[p].path = x
                      => /\ err[p].kind = "readers"
                         /\ InList(err[p].readers, getpid(p))
                   /\ err[p].path # x => err[p].path \in BeforeWrite(p, x)
             /\ NestedOnOwnWrite(p, x)
                => (pc[p] = "acq_raise" /\ Conflict(err[p])))
    /\ RefusedEnds

\* C27, the case reached: inside a guard that reads X the process entered
\* a guard with X as read path and as write path, which was refused with
\* the process listed twice.
C27_Witness ==
    \E p, q \in Procs :
        /\ p # q /\ getpid(p) = getpid(q)
        /\ pc[q] = "body" /\ read[q] = <<"X">>
        /\ SharedPath(p, "X") /\ read[p] = <<"X">> /\ write[p] = <<"X">>
        /\ pc[p] = "acq_raise"
        /\ err[p] = ReadersBusy("X", Repeat(getpid(p), 2))

\* inside the acquire cycle of rwlock
InAcquire(p) ==
    pc[p] \in {"acq_lock", "acq_sleep", "acq_load", "acq_mut", "acq_save",
               "acq_unlock", "acq_raise"}

\* C28: the body and the release cycle run only in a call whose acquire
\* cycle raised nothing and dumped; a call that ends from inside its
\* acquire cycle ends with a LockError, has run neither its body nor a
\* release cycle, and its last step leaves the file as it was; the only
\* step of an acquire cycle that changes the file is its dump.
C28_NoReleaseAfterRefusal ==
    /\ [](\A p \in Procs :
             /\ (pc[p] = "body" \/ InRelease(p)) => acquired[p]
             /\ pc[p] \in {"body", "rel_lock", "rel_sleep", "rel_load"}
                => err[p] = NoError
             /\ pc[p] = "acq_raise" => (Conflict(err[p]) /\ ~acquired[p]))
    /\ [][\A p \in Procs :
             /\ (InAcquire(p) /\ pc'[p] = "idle")
                => /\ Conflict(err'[p]) \/ err'[p] = GateBusy
                   /\ file' = file
                   /\ body'[p] = "none" /\ released'[p] = 0
                   /\ ~acquired'[p]
             /\ (InAcquire(p) /\ pc'[p] # pc[p] /\ file' # file)
                => (pc[p] = "acq_save" /\ err[p] = NoError)]_vars

\* C28, the case reached: the call of p was refused on X, which q holds
\* for writing; it is over without body or release, and the entry of q is
\* in the document.
C28_Witness ==
    \E p, q \in Procs :
        /\ p # q /\ pc[q] = "body" /\ write[q] = <<"X">>
        /\ pc[p] = "idle" /\ err[p] = WriterBusy("X", getpid(q))
        /\ body[p] = "none" /\ released[p] = 0 /\ ~acquired[p]
        /\ file = json_dump([x \in {"X"} |-> [writer |-> getpid(q)]])

\* documents d and e have the same key and entry, or both none, for x
SameAt(d, e, x) ==
    /\ (x \in DOMAIN d) = (x \in DOMAIN e)
    /\ Entry(d, x) = Entry(e, x)

\* C29: the document a cycle is about to dump equals the one it loaded at
\* every path that is neither a read path nor a write path of the call;
\* and no step of a call changes the persisted document at such a path,
\* whoever holds it.
C29_NamedPathsOnly ==
    /\ [](\A p \in Procs :
             pc[p] \in {"acq_save", "rel_save"}
             => \A x \in Paths \ CallPaths(p) :
                   SameAt(mem[p], loadedDoc(p), x))
    /\ [][\A p \in Procs :
             ((InAcquire(p) \/ InRelease(p)) /\ pc'[p] # pc[p])
             => \A x \in Paths \ CallPaths(p) :
                   SameAt(rwlock_load(file'), rwlock_load(file), x)]_vars

\* C29, the case reached: while q holds Y for writing, p has acquired and
\* released X; the entry of Y is as q wrote it.
C29_Witness ==
    \E p, q \in Procs :
        /\ p # q /\ pc[q] = "body" /\ write[q] = <<"Y">>
        /\ pc[p] = "rel_unlock" /\ write[p] = <<"X">> /\ read[p] = <<>>
        /\ loadedDoc(p) = [x \in {"X", "Y"} |->
                              IF x = "X" THEN [writer |-> getpid(p)]
                                         ELSE [writer |-> getpid(q)]]
        /\ file = json_dump([x \in {"Y"} |-> [writer |-> getpid(q)]])

\* the first read path of the call that the loaded document has a writer
\* for, and the first write path whose loaded entry has no writer field
ReadLocked(p, i) == get_writer(Entry(loadedDoc(p), read[p][i])) # 0
FirstReadLocked(p) ==
    CHOOSE i \in 1..Len(read[p]) :
        ReadLocked(p, i) /\ \A j \in 1..(i - 1) : ~ReadLocked(p, j)
NoWriterField(p, i) ==
    /\ write[p][i] \in DOMAIN loadedDoc(p)
    /\ "writer" \notin DOMAIN loadedDoc(p)[write[p][i]]
FirstNoWriterField(p) ==
    CHOOSE i \in 1..Len(write[p]) :
        NoWriterField(p, i) /\ \A j \in 1..(i - 1) : ~NoWriterField(p, j)

\* C30: an acquire with a write-locked read path fails with the writer
\* LockError of the first such read path, whatever its write paths would
\* have met; when it fails with a readers LockError (which only a write
\* path gives), every read path has been registered in memory before.  A
\* release with a write path whose entry has no writer field fails with
\* the KeyError of the first such write path, whatever its read paths
\* would have met; when it fails on a read path instead, the caller's
\* writer registrations on the write paths have been cleared in memory
\* before.
C30_ProcessingOrder ==
    \A p \in Procs :
        /\ (AfterAcquire(p) /\ \E i \in 1..Len(read[p]) : ReadLocked(p, i))
           => /\ pc[p] = "acq_raise"
              /\ LET x == read[p][FirstReadLocked(p)]
                 IN  err[p] = WriterBusy(x, get_writer(Entry(loadedDoc(p), x)))
        /\ (pc[p] = "acq_raise" /\ err[p].kind = "readers")
           => \A x \in Range(read[p]) :
                 ReaderCount(mem[p], x, getpid(p))
                 = ReaderCount(loadedDoc(p), x, getpid(p))
                   + Occurrences(read[p], x)
        /\ (/\ pc[p] \in {"rel_save", "rel_raise"}
            /\ \E i \in 1..Len(write[p]) : NoWriterField(p, i))
           => /\ pc[p] = "rel_raise"
              /\ err[p] = KeyError(write[p][FirstNoWriterField(p)])
        /\ (/\ pc[p] = "rel_raise"
            /\ ~\E i \in 1..Len(write[p]) : NoWriterField(p, i))
           => /\ err[p].kind = "KeyError" /\ err[p].path \in Range(read[p])
              /\ \A x \in Range(write[p]) :
                    get_writer(Entry(mem[p], x)) # getpid(p)

\* C30, the case reached: read path X and write path Y are both held by
\* another process, and the error is the writer LockError for X.
C30_Witness ==
    \E p, q \in Procs :
        /\ p # q /\ pc[q] = "body"
        /\ pc[p] = "acq_raise" /\ read[p] = <<"X">> /\ write[p] = <<"Y">>
        /\ get_writer(Entry(loadedDoc(p), "X")) = getpid(q)
        /\ get_readers(Entry(loadedDoc(p), "Y")) = <<getpid(q)>>
        /\ err[p] = WriterBusy("X", getpid(q))

\* the call of p is over and its body had failed
FailedBodyOver(p) == pc[p] = "idle" /\ body[p] = "failed"
\* the release cycle of p has dumped: the registrations of this call, one
\* per path of its read and write arguments, are out of the document, and
\* p is registered on none of the paths unless an earlier call left a
\* registration behind
OwnEntriesGone(p) ==
    \A x \in CallPaths(p) :
        /\ get_writer(Entry(file.data, x)) # getpid(p)
        /\ ReaderCount(file.data, x, getpid(p))
           = ReaderCount(loadedDoc(p), x, getpid(p)) - Occurrences(read[p], x)
        /\ ~leaked => NotHeldBy(file.data, x, getpid(p))
\* after a failed body the release cycle is next, and it raises nothing
\* of its own once it holds the gate
ReleaseAfterFailure ==
    \A p \in Procs :
        /\ (body[p] = "failed" /\ pc[p] # "idle") => InRelease(p)
        /\ body[p] = "failed" => pc[p] # "rel_raise"
        /\ (body[p] = "failed" /\ pc[p] = "rel_unlock") => OwnEntriesGone(p)

C33_UnlockNeedsHeldGate ==
    /\ [](\A p \in Procs :
            /\ calls = 0 => ~_lock[p]
            /\ _lock[p] => gate = getpid(p))
    /\ [][\A p \in Procs :
            Lock_unlock(p)
            => IF _lock[p]
                  THEN /\ err'[p] = NoError
                       /\ gate' = 0
                       /\ _lock' = [_lock EXCEPT ![p] = FALSE]
                  ELSE /\ err'[p] = AttributeError
                       /\ gate' = gate
                       /\ _lock' = _lock]_vars

\* C33, the case reached: q has failed to lock the gate, so p held it; p
\* has unlocked it and called unlock once more, which raised, with four
\* calls made in all.
C33_Witness ==
    \E p, q \in Procs :
        /\ p # q /\ AllOver /\ calls = 4
        /\ err[q] = GateBusy
        /\ err[p] = AttributeError
        /\ gate = 0 /\ ~_lock[p] /\ ~_lock[q]
====
